---- MODULE Spec2Model ----
(***************************************************************************)
(* Model of the response extractor (modules/api_client.py), the 3D box     *)
(* projector and renderer (modules/visualization.py), the 2D renderer      *)
(* (modules/visualization_2d.py) and the camera of the 3D branch           *)
(* (modules/camera_utils.py, app.py).                                      *)
(*                                                                         *)
(* A text is a sequence of tokens.  A token is one character, except that  *)
(* the three-backtick marker, the word json and the dictionary key names   *)
(* are single tokens: the code only ever tests, splits on or removes these *)
(* character runs as a whole.                                              *)
(*                                                                         *)
(* A Python value is a record [k, v]: k is its type ("int", "str", "list", *)
(* "dict", "none") and v its content.  A dict is the sequence of its       *)
(* <<key, value>> pairs in insertion order, keys unique.                   *)
(***************************************************************************)
EXTENDS Integers, Sequences, FiniteSets, TLC

VARIABLES
    pc,           \* position in the flow that is being run
    text,         \* response text handed to the extractor
    sent,         \* the detection list the response was encoded from, or NoneVal
    json_str,     \* result of parse_json_response(text)
    bbox_results, \* result of parse_bbox_2d/3d_from_text(text)
    raised,       \* exception that left the last call, "none" when it returned
    image,        \* the source image file: [loadable, w, h]
    cam_params,   \* camera intrinsics [fx, fy, cx, cy]
    bbox_data,    \* the list of records handed to a renderer (a Python value)
    point,        \* the 9 numbers handed to convert_3dbbox
    img_corners,  \* result of convert_3dbbox
    fig,          \* result of a renderer
    cam_infos,    \* the camera lookup source (cam_infos.json) as it stands now
    probe,        \* what the first query of the lookup returned
    fov           \* the field of view chosen on the slider, in degrees

vars == <<pc, text, sent, json_str, bbox_results, raised, image, cam_params,
          bbox_data, point, img_corners, fig, cam_infos, probe, fov>>

(***************************************************************************)
(* Tokens                                                                  *)
(***************************************************************************)
\* the three-backtick marker, the word json, line feed, carriage return,
\* space, double quote and backslash
FENCE == "FENCE"
JSON == "json"
LF == "LF"
CR == "CR"
SP == "SP"
QUOTE == "QUOTE"
BSLASH == "BSLASH"

Whitespace == {SP, LF, CR}

Digits == <<"0", "1", "2", "3", "4", "5", "6", "7", "8", "9">>

IsDigit(c) == \E d \in 1..10 : Digits[d] = c

DigitVal(c) == (CHOOSE d \in 1..10 : Digits[d] = c) - 1

(***************************************************************************)
(* Python str methods, on token sequences                                  *)
(***************************************************************************)
Slice(s, a, b) == IF a > b THEN <<>> ELSE SubSeq(s, a, b)

Contains(s, tok) == \E i \in 1..Len(s) : s[i] = tok

\* str.find(tok): position of the first occurrence, 0 when absent
Find(s, tok) ==
    IF Contains(s, tok) THEN CHOOSE i \in 1..Len(s) :
                                 s[i] = tok /\ \A j \in 1..(i - 1) : s[j] # tok
    ELSE 0

\* str.rfind(tok): position of the last occurrence, 0 when absent
RFind(s, tok) ==
    IF Contains(s, tok) THEN CHOOSE i \in 1..Len(s) :
                                 s[i] = tok /\ \A j \in (i + 1)..Len(s) : s[j] # tok
    ELSE 0

\* str.strip(): drop leading and trailing whitespace
Strip(s) ==
    IF \A i \in 1..Len(s) : s[i] \in Whitespace THEN <<>>
    ELSE LET a == CHOOSE i \in 1..Len(s) :
                      s[i] \notin Whitespace /\ \A j \in 1..(i - 1) : s[j] \in Whitespace
             b == CHOOSE i \in 1..Len(s) :
                      s[i] \notin Whitespace /\ \A j \in (i + 1)..Len(s) : s[j] \in Whitespace
         IN SubSeq(s, a, b)

StartsWith(s, tok) == Len(s) >= 1 /\ s[1] = tok

EndsWith(s, tok) == Len(s) >= 1 /\ s[Len(s)] = tok

\* s.split(tok)[0]: everything before the first occurrence of tok
SplitFirst(s, tok) == IF Contains(s, tok) THEN Slice(s, 1, Find(s, tok) - 1) ELSE s

\* s.split(tok)[1], for s that contains tok: between the first and the second tok
SplitSecond(s, tok) == SplitFirst(Slice(s, Find(s, tok) + 1, Len(s)), tok)

\* s.replace(tok, "")
Remove(s, tok) == SelectSeq(s, LAMBDA c : c # tok)

\* str.splitlines(): lines end at \n, \r or \r\n; a final terminator opens no line
RECURSIVE SplitLines(_)
SplitLines(s) ==
    IF s = <<>> THEN <<>>
    ELSE IF \A i \in 1..Len(s) : s[i] \notin {LF, CR} THEN <<s>>
    ELSE LET e == CHOOSE i \in 1..Len(s) :
                      s[i] \in {LF, CR} /\ \A j \in 1..(i - 1) : s[j] \notin {LF, CR}
             skip == IF s[e] = CR /\ e < Len(s) /\ s[e + 1] = LF THEN e + 1 ELSE e
         IN <<Slice(s, 1, e - 1)>> \o SplitLines(Slice(s, skip + 1, Len(s)))

\* "\n".join(lines)
RECURSIVE JoinLines(_)
JoinLines(lines) ==
    IF lines = <<>> THEN <<>>
    ELSE IF Len(lines) = 1 THEN lines[1]
    ELSE lines[1] \o <<LF>> \o JoinLines(Tail(lines))

(***************************************************************************)
(* APIClient.parse_json_response                                           *)
(***************************************************************************)
\* line.strip() == "```json"
IsJsonFenceLine(line) == Strip(line) = <<FENCE, JSON>>

\* line.strip().startswith("```") and "json" in line.strip()
IsInlineFenceLine(line) == StartsWith(Strip(line), FENCE) /\ Contains(Strip(line), JSON)

\* lines[i+1:]
LinesAfter(lines, i) == Slice(lines, i + 1, Len(lines))

\* the branch taken at a line that is exactly the json fence
FenceBlockPayload(lines, i) == Strip(SplitFirst(JoinLines(LinesAfter(lines, i)), FENCE))

\* the branch taken at a line that starts with the marker and contains json
InlineFencePayload(lines, i) ==
    LET json_part == Strip(Remove(SplitSecond(lines[i], FENCE), JSON))
        remaining == JoinLines(LinesAfter(lines, i))
    IN Strip(SplitFirst(json_part \o <<LF>> \o remaining, FENCE))

\* BareJson with an empty result when no bracket pair is found
BareJson_empty(t) ==
    LET s == Strip(t)
    IN IF StartsWith(s, "[") /\ EndsWith(s, "]") THEN s
       ELSE IF StartsWith(s, "{") /\ EndsWith(s, "}") THEN s
       ELSE IF Find(s, "[") # 0 /\ RFind(s, "]") # 0 /\ RFind(s, "]") > Find(s, "[")
            THEN SubSeq(s, Find(s, "["), RFind(s, "]"))
       ELSE IF Find(s, "{") # 0 /\ RFind(s, "}") # 0 /\ RFind(s, "}") > Find(s, "{")
            THEN SubSeq(s, Find(s, "{"), RFind(s, "}"))
       ELSE <<>>

\* the fallbacks used when no line opens a json fence
BareJson(t) ==
    LET s == Strip(t)
    IN IF StartsWith(s, "[") /\ EndsWith(s, "]") THEN s
       ELSE IF StartsWith(s, "{") /\ EndsWith(s, "}") THEN s
       ELSE IF Find(s, "[") # 0 /\ RFind(s, "]") # 0 /\ RFind(s, "]") > Find(s, "[")
            THEN SubSeq(s, Find(s, "["), RFind(s, "]"))
       ELSE IF Find(s, "{") # 0 /\ RFind(s, "}") # 0 /\ RFind(s, "}") > Find(s, "{")
            THEN SubSeq(s, Find(s, "{"), RFind(s, "}"))
       ELSE s

parse_json_response(t) ==
    IF t = <<>> THEN <<>>
    ELSE LET lines == SplitLines(t)
             hits == {i \in 1..Len(lines) :
                          IsJsonFenceLine(lines[i]) \/ IsInlineFenceLine(lines[i])}
         IN IF hits # {}
            THEN LET i == CHOOSE h \in hits : \A g \in hits : h <= g
                 IN IF IsJsonFenceLine(lines[i]) THEN FenceBlockPayload(lines, i)
                    ELSE InlineFencePayload(lines, i)
            ELSE BareJson(t)

(***************************************************************************)
(* Python values                                                           *)
(***************************************************************************)
NoneVal == [k |-> "none", v |-> 0]

IntVal(n) == [k |-> "int", v |-> n]

StrVal(s) == [k |-> "str", v |-> s]

ListVal(items) == [k |-> "list", v |-> items]

DictVal(pairs) == [k |-> "dict", v |-> pairs]

IsList(x) == x.k = "list"

IsDict(x) == x.k = "dict"

IsStr(x) == x.k = "str"

IsInt(x) == x.k = "int"

\* key in d
HasKey(d, key) == \E i \in 1..Len(d.v) : d.v[i][1] = key

\* d[key], for a key that is present
GetKey(d, key) == d.v[CHOOSE i \in 1..Len(d.v) : d.v[i][1] = key][2]

\* d[key] = val: a present key keeps its place and takes the new value
SetKey(pairs, key, val) ==
    IF \E i \in 1..Len(pairs) : pairs[i][1] = key
    THEN [i \in 1..Len(pairs) |-> IF pairs[i][1] = key THEN <<key, val>> ELSE pairs[i]]
    ELSE Append(pairs, <<key, val>>)

(***************************************************************************)
(* json.loads, as far as the token alphabet goes: integers, null, strings  *)
(* with the escapes \" \\ \n \r, arrays and objects.  A backslash is never *)
(* followed by a key-name token in the inputs, so every other escape is    *)
(* an invalid one.                                                         *)
(***************************************************************************)
\* containers nested deeper than this exhaust the interpreter's recursion
\* guard (about 1000 frames in CPython; scaled to the size of the model)
RecursionLimit == 3

DecodeError == [exc |-> "JSONDecodeError", val |-> NoneVal, next |-> 0]

DepthError == [exc |-> "RecursionError", val |-> NoneVal, next |-> 0]

Decoded(val, next) == [exc |-> "none", val |-> val, next |-> next]

\* index of the first token at or after i that is not whitespace
RECURSIVE SkipWs(_, _)
SkipWs(s, i) == IF i <= Len(s) /\ s[i] \in Whitespace THEN SkipWs(s, i + 1) ELSE i

\* the string body after an opening quote: ends at the closing quote
RECURSIVE ScanString(_, _, _)
ScanString(s, j, acc) ==
    IF j > Len(s) THEN DecodeError
    ELSE IF s[j] = QUOTE THEN Decoded(StrVal(acc), j + 1)
    ELSE IF s[j] \in {LF, CR} THEN DecodeError
    ELSE IF s[j] = BSLASH
         THEN IF j + 1 <= Len(s) /\ s[j + 1] \in {QUOTE, BSLASH}
              THEN ScanString(s, j + 2, Append(acc, s[j + 1]))
              ELSE IF j + 1 <= Len(s) /\ s[j + 1] = "n"
              THEN ScanString(s, j + 2, Append(acc, LF))
              ELSE IF j + 1 <= Len(s) /\ s[j + 1] = "r"
              THEN ScanString(s, j + 2, Append(acc, CR))
              ELSE DecodeError
    ELSE ScanString(s, j + 1, Append(acc, s[j]))

\* the digits [1-9]\d* continued from position j with value acc
RECURSIVE ScanDigits(_, _, _)
ScanDigits(s, j, acc) ==
    IF j <= Len(s) /\ IsDigit(s[j]) THEN ScanDigits(s, j + 1, acc * 10 + DigitVal(s[j]))
    ELSE [val |-> acc, next |-> j]

\* NUMBER_RE: -?(0|[1-9]\d*)
ScanNumber(s, i) ==
    LET neg == s[i] = "-"
        j == IF neg THEN i + 1 ELSE i
    IN IF j > Len(s) \/ ~IsDigit(s[j]) THEN DecodeError
       ELSE IF s[j] = "0" THEN Decoded(IntVal(0), j + 1)
       ELSE LET d == ScanDigits(s, j, 0)
            IN Decoded(IntVal(IF neg THEN 0 - d.val ELSE d.val), d.next)

RECURSIVE ScanOnce(_, _, _), ParseArray(_, _, _, _), ParseObject(_, _, _, _)
\* scan_once: the value that starts at position i, inside depth containers
ScanOnce(s, i, depth) ==
    IF i > Len(s) THEN DecodeError
    ELSE IF s[i] = QUOTE THEN ScanString(s, i + 1, <<>>)
    ELSE IF s[i] = "[" THEN
        IF depth + 1 > RecursionLimit THEN DepthError
        ELSE IF SkipWs(s, i + 1) <= Len(s) /\ s[SkipWs(s, i + 1)] = "]"
             THEN Decoded(ListVal(<<>>), SkipWs(s, i + 1) + 1)
        ELSE ParseArray(s, SkipWs(s, i + 1), depth + 1, <<>>)
    ELSE IF s[i] = "{" THEN
        IF depth + 1 > RecursionLimit THEN DepthError
        ELSE IF SkipWs(s, i + 1) <= Len(s) /\ s[SkipWs(s, i + 1)] = "}"
             THEN Decoded(DictVal(<<>>), SkipWs(s, i + 1) + 1)
        ELSE ParseObject(s, SkipWs(s, i + 1), depth + 1, <<>>)
    ELSE IF s[i] = "-" \/ IsDigit(s[i]) THEN ScanNumber(s, i)
    ELSE IF s[i] = "null" THEN Decoded(NoneVal, i + 1)
    ELSE DecodeError

\* the items of an array from position i on, acc holding those already read
ParseArray(s, i, depth, acc) ==
    LET item == ScanOnce(s, i, depth)
    IN IF item.exc # "none" THEN item
       ELSE LET j == SkipWs(s, item.next)
            IN IF j > Len(s) THEN DecodeError
               ELSE IF s[j] = "]" THEN Decoded(ListVal(Append(acc, item.val)), j + 1)
               ELSE IF s[j] = "," THEN ParseArray(s, SkipWs(s, j + 1), depth,
                                                  Append(acc, item.val))
               ELSE DecodeError

\* the pairs of an object from position i on, acc holding those already read
ParseObject(s, i, depth, acc) ==
    IF i > Len(s) \/ s[i] # QUOTE THEN DecodeError
    ELSE LET key == ScanString(s, i + 1, <<>>)
         IN IF key.exc # "none" THEN key
            ELSE LET c == SkipWs(s, key.next)
                 IN IF c > Len(s) \/ s[c] # ":" THEN DecodeError
                    ELSE LET item == ScanOnce(s, SkipWs(s, c + 1), depth)
                         IN IF item.exc # "none" THEN item
                            ELSE LET j == SkipWs(s, item.next)
                                     pairs == SetKey(acc, key.val.v, item.val)
                                 IN IF j > Len(s) THEN DecodeError
                                    ELSE IF s[j] = "}" THEN Decoded(DictVal(pairs), j + 1)
                                    ELSE IF s[j] = ","
                                         THEN ParseObject(s, SkipWs(s, j + 1), depth, pairs)
                                    ELSE DecodeError

\* json.loads(s): one value, surrounded by whitespace at most
json_loads(s) ==
    LET r == ScanOnce(s, SkipWs(s, 1), 0)
    IN IF r.exc # "none" THEN [exc |-> r.exc, val |-> NoneVal]
       ELSE IF SkipWs(s, r.next) # Len(s) + 1
            THEN [exc |-> "JSONDecodeError", val |-> NoneVal]
       ELSE [exc |-> "none", val |-> r.val]

(***************************************************************************)
(* json.dumps with its default separators ", " and ": "                    *)
(***************************************************************************)
RECURSIVE NatTokens(_)
NatTokens(n) ==
    IF n < 10 THEN <<Digits[n + 1]>> ELSE Append(NatTokens(n \div 10), Digits[(n % 10) + 1])

IntTokens(n) == IF n < 0 THEN <<"-">> \o NatTokens(0 - n) ELSE NatTokens(n)

\* the body of a string literal: quote, backslash and line breaks are escaped
RECURSIVE Escape(_)
Escape(s) ==
    IF s = <<>> THEN <<>>
    ELSE (IF Head(s) \in {QUOTE, BSLASH} THEN <<BSLASH, Head(s)>>
          ELSE IF Head(s) = LF THEN <<BSLASH, "n">>
          ELSE IF Head(s) = CR THEN <<BSLASH, "r">>
          ELSE <<Head(s)>>) \o Escape(Tail(s))

RECURSIVE json_dumps(_), DumpItems(_), DumpPairs(_)
json_dumps(x) ==
    IF x.k = "int" THEN IntTokens(x.v)
    ELSE IF x.k = "str" THEN <<QUOTE>> \o Escape(x.v) \o <<QUOTE>>
    ELSE IF x.k = "list" THEN <<"[">> \o DumpItems(x.v) \o <<"]">>
    ELSE IF x.k = "dict" THEN <<"{">> \o DumpPairs(x.v) \o <<"}">>
    ELSE <<"null">>

DumpItems(items) ==
    IF items = <<>> THEN <<>>
    ELSE IF Len(items) = 1 THEN json_dumps(items[1])
    ELSE json_dumps(items[1]) \o <<",", SP>> \o DumpItems(Tail(items))

DumpPairs(pairs) ==
    IF pairs = <<>> THEN <<>>
    ELSE LET one == <<QUOTE>> \o Escape(pairs[1][1]) \o <<QUOTE, ":", SP>>
                    \o json_dumps(pairs[1][2])
         IN IF Len(pairs) = 1 THEN one ELSE one \o <<",", SP>> \o DumpPairs(Tail(pairs))

(***************************************************************************)
(* APIClient.parse_bbox_2d_from_text / parse_bbox_3d_from_text             *)
(***************************************************************************)
\* the exception classes named by the except clause of both functions
ParseCaught == {"JSONDecodeError", "IndexError", "KeyError"}

\* what the call hands back: the list it returns, or the exception that escapes
Returned(items) == [exc |-> "none", ret |-> items]

Escaped(e) == [exc |-> e, ret |-> <<>>]

parse_bbox_from_text(t) ==
    LET js == parse_json_response(t)
    IN IF js = <<>> THEN Returned(<<>>)
       ELSE LET d == json_loads(js)
            IN IF d.exc # "none"
               THEN IF d.exc \in ParseCaught THEN Returned(<<>>) ELSE Escaped(d.exc)
               ELSE IF IsList(d.val) THEN Returned(d.val.v)
               ELSE IF IsDict(d.val) THEN Returned(<<d.val>>)
               ELSE Returned(<<>>)

parse_bbox_2d_from_text(t) == parse_bbox_from_text(t)

parse_bbox_3d_from_text(t) == parse_bbox_from_text(t)

(***************************************************************************)
(* Responses the extractor is run on                                       *)
(***************************************************************************)
MaxLines == 3
MaxTextLen == 5
MaxDets == 2

\* all sequences of at most n elements of S
SeqsUpTo(S, n) == UNION {[1..m -> S] : m \in 0..n}

RECURSIVE JoinWith(_, _)
JoinWith(lines, term) ==
    IF lines = <<>> THEN <<>>
    ELSE IF Len(lines) = 1 THEN lines[1]
    ELSE lines[1] \o term \o JoinWith(Tail(lines), term)

\* lines a chat model writes around a fenced answer
LineVocab ==
    { <<"a">>,                                \* prose
      <<FENCE, JSON>>,                        \* the json fence
      <<SP, FENCE, JSON, SP>>,                \* the same, indented
      <<FENCE>>,                              \* a bare fence
      <<FENCE, "a">>,                         \* a fence with another tag
      <<FENCE, JSON, "a">>,                   \* a tag that begins with json
      <<"[", "1", "]">>,                      \* a payload line
      <<"[", "1", "]", FENCE>>,               \* payload closed on its own line
      <<FENCE, JSON, SP, "[", "1", "]">>,     \* fence, tag and payload on one line
      <<FENCE, JSON, SP, "[", JSON, "]">> }   \* the same, the payload holding json

LineTexts ==
    {JoinWith(ls, term) : ls \in SeqsUpTo(LineVocab, MaxLines),
                          term \in {<<LF>>, <<CR, LF>>}}

\* every short text over brackets, blanks, a letter and a digit
ShortAlphabet == {"[", "]", "{", "}", SP, "a", "1"}

ShortTexts == SeqsUpTo(ShortAlphabet, MaxTextLen)

KeyBbox2d == <<"bbox_2d">>
KeyBbox3d == <<"bbox_3d">>
KeyBbox == <<"bbox">>
KeyBoundingBox == <<"bounding_box">>
KeyLabel == <<"label">>
KeyScore == <<"score">>

IntList(ns) == ListVal([i \in 1..Len(ns) |-> IntVal(ns[i])])

\* a detection object as the prompts of app.py ask for it
Det2D(geom, label) == DictVal(<< <<KeyBbox2d, IntList(geom)>>, <<KeyLabel, StrVal(label)>> >>)

Det3D(geom, label) == DictVal(<< <<KeyBbox3d, IntList(geom)>>, <<KeyLabel, StrVal(label)>> >>)

SampleLabels ==
    { <<"a">>, <<>>, <<"a", SP, JSON>>, <<"a", FENCE>>, <<QUOTE, BSLASH>>, <<"[", LF>> }

SampleDets ==
    {Det2D(g, l) : g \in {<<100, 100, 900, 900>>, <<0, 7, 1000, -1>>}, l \in SampleLabels}
    \cup {Det3D(<<0, 0, 10, 2, 2, 2, 0, 90, -45>>, l) : l \in SampleLabels}

DetLists == SeqsUpTo(SampleDets, MaxDets)

\* a JSON document between a json fence line and a closing fence line
Fenced(doc) == <<FENCE, JSON, LF>> \o doc \o <<LF, FENCE>>

\* bare JSON values, alone or inside a sentence
SampleValues ==
    { IntList(<<1, 2>>),
      ListVal(<<Det2D(<<1, 2, 3, 4>>, <<"a">>)>>),
      Det2D(<<1, 2, 3, 4>>, <<"a">>),
      DictVal(<< <<KeyLabel, StrVal(<<"a">>)>> >>),
      DictVal(<<>>),
      IntVal(5),
      StrVal(<<"a">>),
      NoneVal,
      ListVal(<<ListVal(<<ListVal(<<IntList(<<1>>)>>)>>)>>) }

ProseTexts ==
    {pre \o json_dumps(x) \o post : x \in SampleValues,
                                    pre \in {<<>>, <<"a", SP>>, <<LF>>},
                                    post \in {<<>>, <<SP, "a">>, <<",">>}}

InputTexts == LineTexts \cup ShortTexts \cup ProseTexts

(***************************************************************************)
(* The detection branches of app.py: the response is extracted, then       *)
(* parsed                                                                  *)
(***************************************************************************)
NoImage == [loadable |-> FALSE, w |-> 0, h |-> 0]

NoCamera == [fx |-> 0, fy |-> 0, cx |-> 0, cy |-> 0]

NoFigure == [kind |-> "unset", shapes |-> <<>>, labels |-> <<>>]

RenderIdle ==
    /\ image = NoImage
    /\ cam_params = NoCamera
    /\ bbox_data = NoneVal
    /\ point = <<>>
    /\ img_corners = <<>>
    /\ fig = NoFigure

ExtractIdle ==
    /\ text = <<>>
    /\ sent = NoneVal
    /\ json_str = <<>>
    /\ bbox_results = <<>>
    /\ raised = "none"

\* no lookup source, nothing queried, the slider at its default
AbsentSource == [kind |-> "absent", entry |-> NoneVal]

DefaultFov == 60

CameraIdle ==
    /\ cam_infos = AbsentSource
    /\ probe = NoneVal
    /\ fov = DefaultFov

InitExtract ==
    /\ pc = "response"
    /\ \/ sent = NoneVal /\ text \in InputTexts
       \/ \E dets \in DetLists : sent = ListVal(dets) /\ text = Fenced(json_dumps(ListVal(dets)))
    /\ json_str = <<>>
    /\ bbox_results = <<>>
    /\ raised = "none"
    /\ RenderIdle
    /\ CameraIdle

ParseJsonResponse ==
    /\ pc = "response"
    /\ json_str' = parse_json_response(text)
    /\ pc' = "extracted"
    /\ UNCHANGED <<text, sent, bbox_results, raised, image, cam_params, bbox_data,
                   point, img_corners, fig>>
    /\ UNCHANGED <<cam_infos, probe, fov>>

ParseBbox2dFromText ==
    /\ pc = "extracted"
    /\ bbox_results' = parse_bbox_2d_from_text(text).ret
    /\ raised' = parse_bbox_2d_from_text(text).exc
    /\ pc' = "parsed_2d"
    /\ UNCHANGED <<text, sent, json_str, image, cam_params, bbox_data, point,
                   img_corners, fig>>
    /\ UNCHANGED <<cam_infos, probe, fov>>

ParseBbox3dFromText ==
    /\ pc = "extracted"
    /\ bbox_results' = parse_bbox_3d_from_text(text).ret
    /\ raised' = parse_bbox_3d_from_text(text).exc
    /\ pc' = "parsed_3d"
    /\ UNCHANGED <<text, sent, json_str, image, cam_params, bbox_data, point,
                   img_corners, fig>>
    /\ UNCHANGED <<cam_infos, probe, fov>>

NextExtract == ParseJsonResponse \/ ParseBbox2dFromText \/ ParseBbox3dFromText

SpecExtract == InitExtract /\ [][NextExtract]_vars

Parsed == pc \in {"parsed_2d", "parsed_3d"}

(***************************************************************************)
(* Visualization2D.draw_bboxes_2d                                          *)
(***************************************************************************)
\* the length of the colour list
PaletteSize == 24

\* the virtual canvas size the coordinates are divided by
VirtualScale == 1000

\* int(n / d) for d > 0: truncation toward zero
Trunc(n, d) == IF n >= 0 THEN n \div d ELSE 0 - ((0 - n) \div d)

\* int(v / 1000 * dim).  The code divides and multiplies in double precision;
\* for integer v in 0..1000 and the image sizes of ImageFiles the result is
\* the truncated exact quotient.
abs_coord(v, dim) == Trunc(v * dim, VirtualScale)

\* bool(x)
Truthy(x) ==
    IF x.k = "none" THEN FALSE
    ELSE IF x.k = "int" THEN x.v # 0
    ELSE Len(x.v) > 0

\* the key the geometry is read from: the first of the three names present
bbox_key(item) ==
    IF HasKey(item, KeyBbox2d) THEN KeyBbox2d
    ELSE IF HasKey(item, KeyBbox) THEN KeyBbox
    ELSE IF HasKey(item, KeyBoundingBox) THEN KeyBoundingBox
    ELSE <<>>

\* item.get(key, default)
GetOr(item, key, default) == IF HasKey(item, key) THEN GetKey(item, key) ELSE default

\* the first loop: the records that are kept for drawing; src is the place
\* of the record in the input list
RECURSIVE processed_bboxes(_, _)
processed_bboxes(items, i) ==
    IF i > Len(items) THEN <<>>
    ELSE LET item == items[i]
             kept ==
                 IF IsDict(item)
                 THEN IF bbox_key(item) # <<>> /\ Truthy(GetKey(item, bbox_key(item)))
                      THEN << [bbox |-> GetKey(item, bbox_key(item)),
                               label |-> GetOr(item, KeyLabel, StrVal(<<"unknown">>)),
                               score |-> GetOr(item, KeyScore, IntVal(1)),
                               src |-> i] >>
                      ELSE <<>>
                 ELSE IF IsList(item) /\ Len(item.v) >= 4
                 THEN << [bbox |-> item, label |-> StrVal(<<"object">>),
                          score |-> IntVal(1), src |-> i] >>
                 ELSE <<>>
         IN kept \o processed_bboxes(items, i + 1)

\* Rectangle2D without the exchange of reversed corners
Rectangle2D_unordered(b, w, h, i, src) ==
    LET ya == abs_coord(b[2].v, h)
        xa == abs_coord(b[1].v, w)
        yb == abs_coord(b[4].v, h)
        xb == abs_coord(b[3].v, w)
    IN [x |-> xa, y |-> ya, width |-> xb - xa, height |-> yb - ya,
        color |-> (i - 1) % PaletteSize, src |-> src]

\* the rectangle patch and the label text of one kept record, i its place
\* among the kept records
Rectangle2D(b, w, h, i, src) ==
    LET ya == abs_coord(b[2].v, h)
        xa == abs_coord(b[1].v, w)
        yb == abs_coord(b[4].v, h)
        xb == abs_coord(b[3].v, w)
        abs_x1 == IF xa > xb THEN xb ELSE xa
        abs_x2 == IF xa > xb THEN xa ELSE xb
        abs_y1 == IF ya > yb THEN yb ELSE ya
        abs_y2 == IF ya > yb THEN ya ELSE yb
    IN [x |-> abs_x1, y |-> abs_y1, width |-> abs_x2 - abs_x1, height |-> abs_y2 - abs_y1,
        color |-> (i - 1) % PaletteSize, src |-> src]

LabelText2D(rect, label, score) ==
    [x |-> rect.x + 8, y |-> rect.y + 6, label |-> label,
     score |-> IF score.v < 1 THEN score ELSE NoneVal, src |-> rect.src]

\* the exception the body of the second loop raises for one kept record
DrawRaises2D(it) ==
    IF it.bbox.k \in {"int", "none"} THEN "TypeError"
    ELSE IF Len(it.bbox.v) # 4 THEN "none"
    ELSE IF IsDict(it.bbox) THEN "KeyError"
    ELSE IF IsStr(it.bbox) THEN "TypeError"
    ELSE IF \E j \in 1..4 : ~IsInt(it.bbox.v[j]) THEN "TypeError"
    ELSE IF ~IsInt(it.score) THEN "TypeError"
    ELSE "none"

Figure2D(shapes, labels) == [kind |-> "figure", shapes |-> shapes, labels |-> labels]

\* the figure of the except branch: the error message and nothing else
ErrorFigure == [kind |-> "error", shapes |-> <<>>, labels |-> <<>>]

\* the second loop, from kept record i on
RECURSIVE DrawKept(_, _, _, _, _)
DrawKept(kept, i, img, shapes, labels) ==
    IF i > Len(kept) THEN Figure2D(shapes, labels)
    ELSE IF DrawRaises2D(kept[i]) # "none" THEN ErrorFigure
    ELSE IF Len(kept[i].bbox.v) # 4 THEN DrawKept(kept, i + 1, img, shapes, labels)
    ELSE LET rect == Rectangle2D(kept[i].bbox.v, img.w, img.h, i, kept[i].src)
         IN DrawKept(kept, i + 1, img, Append(shapes, rect),
                     Append(labels, LabelText2D(rect, kept[i].label, kept[i].score)))

draw_bboxes_2d(img, data) ==
    IF ~img.loadable THEN ErrorFigure
    ELSE IF IsStr(data) /\ json_loads(data.v).exc = "JSONDecodeError" THEN Figure2D(<<>>, <<>>)
    ELSE IF IsStr(data) /\ json_loads(data.v).exc # "none" THEN ErrorFigure
    ELSE LET d == IF IsStr(data) THEN json_loads(data.v).val ELSE data
         IN IF IsList(d) THEN DrawKept(processed_bboxes(d.v, 1), 1, img, <<>>, <<>>)
            ELSE Figure2D(<<>>, <<>>)

(***************************************************************************)
(* The 2D branch of app.py from the parsed list on                         *)
(***************************************************************************)
MaxRecords == 2

\* loadable images of the sizes the scaling is exact for, and a missing file
ImageFiles ==
    { NoImage,
      [loadable |-> TRUE, w |-> 500, h |-> 500],
      [loadable |-> TRUE, w |-> 640, h |-> 480],
      [loadable |-> TRUE, w |-> 1000, h |-> 250] }

Coords == {0, 100, 333, 900, 1000}

\* one well-formed record for every geometry over Coords
Geometries2D ==
    {Det2D(<<a, b, c, d>>, <<"a">>) : a \in Coords, b \in Coords, c \in Coords, d \in Coords}

\* well-formed and malformed records a decoded response can hold
Records2D ==
    { Det2D(<<100, 100, 900, 900>>, <<"a">>),
      Det2D(<<900, 900, 100, 100>>, <<"b">>),
      IntList(<<0, 333, 1000, 1000>>),
      DictVal(<< <<KeyBbox, IntList(<<100, 900, 333, 0>>)>>, <<KeyScore, IntVal(0)>> >>),
      DictVal(<< <<KeyBoundingBox, IntList(<<1, 1, 1, 1>>)>>, <<KeyScore, StrVal(<<"a">>)>> >>),
      Det2D(<<100, 100, 900>>, <<"a">>),
      IntList(<<1, 2, 3, 4, 5>>),
      DictVal(<< <<KeyBbox2d, ListVal(<<StrVal(<<"a">>), IntVal(1), IntVal(2), IntVal(3)>>)>> >>),
      DictVal(<< <<KeyBbox2d, ListVal(<<IntVal(1), IntVal(1), IntVal(2), NoneVal>>)>> >>),
      DictVal(<< <<KeyBbox2d, IntVal(5)>> >>),
      DictVal(<< <<KeyBbox2d, StrVal(<<"a", "a", "a", "a">>)>> >>),
      DictVal(<< <<KeyBbox2d, NoneVal>>, <<KeyBbox, IntList(<<1, 2, 3, 4>>)>> >>),
      DictVal(<< <<KeyLabel, StrVal(<<"a">>)>> >>),
      IntVal(7) }

RenderInputs2D ==
    {ListVal(rs) : rs \in SeqsUpTo(Records2D, MaxRecords)}
    \cup {ListVal(<<g>>) : g \in Geometries2D}
    \cup {Det2D(<<100, 100, 900, 900>>, <<"a">>),
          StrVal(json_dumps(ListVal(<<Det2D(<<100, 100, 900, 900>>, <<"a">>)>>))),
          StrVal(<<"[", "[", "[", "[">>),
          StrVal(<<"a">>)}

Init2D ==
    /\ pc = "render_2d"
    /\ image \in ImageFiles
    /\ bbox_data \in RenderInputs2D
    /\ cam_params = NoCamera
    /\ point = <<>>
    /\ img_corners = <<>>
    /\ fig = NoFigure
    /\ ExtractIdle
    /\ CameraIdle

DrawBboxes2d ==
    /\ pc = "render_2d"
    /\ fig' = draw_bboxes_2d(image, bbox_data)
    /\ pc' = "drawn_2d"
    /\ UNCHANGED <<text, sent, json_str, bbox_results, raised, image, cam_params,
                   bbox_data, point, img_corners>>
    /\ UNCHANGED <<cam_infos, probe, fov>>

Next2D == DrawBboxes2d

Spec2D == Init2D /\ [][Next2D]_vars

(***************************************************************************)
(* Visualization3D.convert_3dbbox                                          *)
(*                                                                         *)
(* Lengths are kept doubled, so that the half sizes are integers.  Angles  *)
(* are whole quarter turns: a radian value is the number of quarter turns  *)
(* it makes, and its sine and cosine are exact.  The math library returns  *)
(* values within 1e-15 of these; rotated boxes are taken where no corner   *)
(* lies at depth 0, so that this rounding cannot move a corner across the  *)
(* image plane; the truncated pixel of a corner of a rotated box can       *)
(* differ by one from the one the code draws.  A projected point keeps     *)
(* its pixel coordinates as fractions xn/d and yn/d.                       *)
(***************************************************************************)
\* np.deg2rad, for multiples of 90 degrees
deg2rad(d) == Trunc(d, 90)

cos(q) == <<1, 0, -1, 0>>[(q % 4) + 1]

sin(q) == <<0, 1, 0, -1>>[(q % 4) + 1]

\* local_corners[c], c in 0..7, doubled: [hx, hy, hz] with the signs of the table
local_corner(p, c) ==
    << IF c \in {0, 1, 2, 3} THEN p[4] ELSE 0 - p[4],
       IF c \in {0, 1, 4, 5} THEN p[5] ELSE 0 - p[5],
       IF c \in {0, 2, 4, 6} THEN p[6] ELSE 0 - p[6] >>

\* world_corner that rolls first, then pitches, then yaws
world_corner_roll_first(p, c) ==
    LET x0 == local_corner(p, c)[1]
        y0 == local_corner(p, c)[2]
        z0 == local_corner(p, c)[3]
        pitch == p[7]
        yaw == p[8]
        roll == p[9]
        x1 == x0 * cos(roll) - y0 * sin(roll)
        y1 == x0 * sin(roll) + y0 * cos(roll)
        z1 == z0
        x2 == x1
        y2 == y1 * cos(pitch) - z1 * sin(pitch)
        z2 == y1 * sin(pitch) + z1 * cos(pitch)
        x3 == x2 * cos(yaw) + z2 * sin(yaw)
        y3 == y2
        z3 == (0 - x2) * sin(yaw) + z2 * cos(yaw)
    IN <<x3 + 2 * p[1], y3 + 2 * p[2], z3 + 2 * p[3]>>

\* the corner after yaw, pitch, roll and the translation, doubled: <<X, Y, Z>>
world_corner(p, c) ==
    LET x0 == local_corner(p, c)[1]
        y0 == local_corner(p, c)[2]
        z0 == local_corner(p, c)[3]
        pitch == p[7]
        yaw == p[8]
        roll == p[9]
        x1 == x0 * cos(yaw) + z0 * sin(yaw)
        y1 == y0
        z1 == (0 - x0) * sin(yaw) + z0 * cos(yaw)
        x2 == x1
        y2 == y1 * cos(pitch) - z1 * sin(pitch)
        z2 == y1 * sin(pitch) + z1 * cos(pitch)
        x3 == x2 * cos(roll) - y2 * sin(roll)
        y3 == x2 * sin(roll) + y2 * cos(roll)
        z3 == z2
    IN <<x3 + 2 * p[1], y3 + 2 * p[2], z3 + 2 * p[3]>>

\* in_front that also admits depth 0
in_front_or_at(Z) == Z >= 0

\* the test that lets a corner be projected
in_front(Z) == Z > 0

\* pixel that leaves the principal point out
pixel_uncentred(w, cam) ==
    [xn |-> cam.fx * w[1], yn |-> cam.fy * w[2], d |-> w[3]]

\* [x_2d, y_2d] of a corner in front of the camera
pixel(w, cam) ==
    [xn |-> cam.fx * w[1] + cam.cx * w[3], yn |-> cam.fy * w[2] + cam.cy * w[3], d |-> w[3]]

\* the loop over the corners from corner c on
RECURSIVE project_from(_, _, _)
project_from(p, cam, c) ==
    IF c > 7 THEN <<>>
    ELSE (IF in_front(world_corner(p, c)[3]) THEN <<pixel(world_corner(p, c), cam)>>
          ELSE <<>>) \o project_from(p, cam, c + 1)

convert_3dbbox(p, cam) == project_from(p, cam, 0)

(***************************************************************************)
(* Visualization3D.draw_3dbboxes                                           *)
(***************************************************************************)
edges ==
    << <<0, 1>>, <<2, 3>>, <<4, 5>>, <<6, 7>>,
       <<0, 2>>, <<1, 3>>, <<4, 6>>, <<5, 7>>,
       <<0, 4>>, <<1, 5>>, <<2, 6>>, <<3, 7>> >>

\* the geometry and the label read from one element of the list
record_geometry(rec) ==
    IF IsDict(rec) /\ HasKey(rec, KeyBbox3d) THEN GetKey(rec, KeyBbox3d) ELSE rec

record_label(rec) ==
    IF IsDict(rec) /\ HasKey(rec, KeyBbox3d) THEN GetOr(rec, KeyLabel, StrVal(<<"object">>))
    ELSE StrVal(<<"object">>)

\* list(x): the elements of a list, the keys of a dict, the characters of a str
py_list(x) ==
    IF IsList(x) THEN x.v
    ELSE IF IsDict(x) THEN [i \in 1..Len(x.v) |-> StrVal(x.v[i][1])]
    ELSE [i \in 1..Len(x.v) |-> StrVal(<<x.v[i]>>)]

\* the exception one record raises before anything of it is drawn
RecordRaises3D(rec) ==
    LET g == record_geometry(rec)
    IN IF g.k \in {"int", "none"} THEN "TypeError"
       ELSE LET b == py_list(g)
            IN IF Len(b) < 7 THEN "IndexError"
               ELSE IF ~IsInt(b[7]) THEN "TypeError"
               ELSE IF Len(b) < 8 THEN "IndexError"
               ELSE IF ~IsInt(b[8]) THEN "TypeError"
               ELSE IF Len(b) < 9 THEN "IndexError"
               ELSE IF ~IsInt(b[9]) THEN "TypeError"
               ELSE IF Len(b) # 9 THEN "ValueError"
               ELSE IF \E j \in 1..6 : ~IsInt(b[j]) THEN "TypeError"
               ELSE "none"

\* the nine numbers handed to convert_3dbbox: the angles replaced by radians
radian_box(rec) ==
    LET b == py_list(record_geometry(rec))
    IN [j \in 1..9 |-> IF j >= 7 THEN deg2rad(b[j].v) ELSE b[j].v]

\* enough_corners that is content with a single corner
enough_corners_any(bbox_2d) == Len(bbox_2d) >= 1

\* the test that lets a projected box be drawn
enough_corners(bbox_2d) == Len(bbox_2d) >= 8

\* tuple(int(c) for c in pt)
int_point(pt) == <<Trunc(pt.xn, pt.d), Trunc(pt.yn, pt.d)>>

\* the lines of one box: an edge whose corner index is out of range raises
\* inside the try and is passed over
RECURSIVE box_lines(_, _, _, _)
box_lines(bbox_2d, i, color, e) ==
    IF e > Len(edges) THEN <<>>
    ELSE (IF edges[e][1] + 1 <= Len(bbox_2d) /\ edges[e][2] + 1 <= Len(bbox_2d)
          THEN << [box |-> i, edge |-> edges[e], color |-> color,
                   pt1 |-> int_point(bbox_2d[edges[e][1] + 1]),
                   pt2 |-> int_point(bbox_2d[edges[e][2] + 1])] >>
          ELSE <<>>) \o box_lines(bbox_2d, i, color, e + 1)

\* the entries one box adds to all_label_positions: one for every edge that
\* was drawn and starts at corner 0
RECURSIVE box_labels(_, _, _, _, _)
box_labels(bbox_2d, i, color, label, e) ==
    IF e > Len(edges) THEN <<>>
    ELSE (IF edges[e][1] + 1 <= Len(bbox_2d) /\ edges[e][2] + 1 <= Len(bbox_2d)
             /\ edges[e][1] = 0
          THEN << [box |-> i, label |-> label, color |-> color,
                   xn |-> bbox_2d[1].xn, yn |-> bbox_2d[1].yn - 10 * bbox_2d[1].d,
                   d |-> bbox_2d[1].d] >>
          ELSE <<>>) \o box_labels(bbox_2d, i, color, label, e + 1)

Figure3D(shapes, labels) == [kind |-> "figure", shapes |-> shapes, labels |-> labels]

\* the return value None
NoneFigure == [kind |-> "None", shapes |-> <<>>, labels |-> <<>>]

\* the loop over the list from record i on; colors[i] is the random colour of box i
RECURSIVE draw_boxes(_, _, _, _, _, _)
draw_boxes(recs, i, cam, colors, shapes, labels) ==
    IF i > Len(recs) THEN Figure3D(shapes, labels)
    ELSE IF RecordRaises3D(recs[i]) # "none" THEN NoneFigure
    ELSE LET bbox_2d == convert_3dbbox(radian_box(recs[i]), cam)
         IN IF enough_corners(bbox_2d)
            THEN draw_boxes(recs, i + 1, cam, colors,
                            shapes \o box_lines(bbox_2d, i, colors[i], 1),
                            labels \o box_labels(bbox_2d, i, colors[i],
                                                 record_label(recs[i]), 1))
            ELSE draw_boxes(recs, i + 1, cam, colors, shapes, labels)

\* iterating a dict yields its keys and iterating a str its characters
draw_3dbboxes(img, cam, data, colors) ==
    IF ~img.loadable THEN NoneFigure
    ELSE IF data.k \in {"int", "none"} THEN NoneFigure
    ELSE draw_boxes(py_list(data), 1, cam, colors, <<>>, <<>>)

(***************************************************************************)
(* The 3D branch of app.py from the parsed list on, and the projector on   *)
(* its own                                                                 *)
(***************************************************************************)
Cameras ==
    { [fx |-> 1000, fy |-> 1000, cx |-> 0, cy |-> 0],
      [fx |-> 1000, fy |-> 1000, cx |-> 500, cy |-> 500] }

\* the colours random.randint can give a box, two of them
Colors == {0, 255}

\* well-formed and malformed records a decoded response can hold
Records3D ==
    { Det3D(<<0, 0, 10, 2, 2, 2, 0, 0, 0>>, <<"a">>),
      Det3D(<<0, 0, 0, 2, 2, 2, 0, 0, 0>>, <<"b">>),
      Det3D(<<0, 0, 1, 2, 2, 2, 0, 0, 0>>, <<"a">>),
      Det3D(<<1, -1, 10, 2, 4, 6, 90, 180, 270>>, <<"b">>),
      IntList(<<0, 0, -10, 2, 2, 2, 0, 0, 0>>),
      IntList(<<-1, 1, 3, 1, 3, 5, 0, 0, 0>>),
      Det3D(<<0, 0, 10, 2, 2, 2, 0, 0>>, <<"a">>),
      Det3D(<<0, 0, 10, 2, 2, 2, 0, 0, 0, 0>>, <<"a">>),
      DictVal(<< <<KeyBbox3d, ListVal(<<IntVal(0), IntVal(0), StrVal(<<"a">>), IntVal(2),
                                        IntVal(2), IntVal(2), IntVal(0), IntVal(0),
                                        IntVal(0)>>)>> >>),
      DictVal(<< <<KeyLabel, StrVal(<<"a">>)>> >>),
      IntVal(7) }

RenderInputs3D ==
    {ListVal(rs) : rs \in SeqsUpTo(Records3D, MaxRecords)}
    \cup {Det3D(<<0, 0, 10, 2, 2, 2, 0, 0, 0>>, <<"a">>), DictVal(<<>>), NoneVal}

Init3D ==
    /\ pc = "render_3d"
    /\ image \in {NoImage, [loadable |-> TRUE, w |-> 1000, h |-> 1000]}
    /\ cam_params \in Cameras
    /\ bbox_data \in RenderInputs3D
    /\ point = <<>>
    /\ img_corners = <<>>
    /\ fig = NoFigure
    /\ ExtractIdle
    /\ CameraIdle

Draw3dbboxes ==
    /\ pc = "render_3d"
    /\ \E colors \in [1..(IF bbox_data.k \in {"int", "none"} THEN 0 ELSE Len(bbox_data.v))
                        -> Colors] :
           fig' = draw_3dbboxes(image, cam_params, bbox_data, colors)
    /\ pc' = "drawn_3d"
    /\ UNCHANGED <<text, sent, json_str, bbox_results, raised, image, cam_params,
                   bbox_data, point, img_corners>>
    /\ UNCHANGED <<cam_infos, probe, fov>>

Next3D == Draw3dbboxes

Spec3D == Init3D /\ [][Next3D]_vars

\* boxes handed to the projector: angles in quarter turns; a rotated box is
\* centred at depth 0 or 10, where none of its corners has depth 0
Boxes ==
    {<<x, y, z, sz[1], sz[2], sz[3], 0, 0, 0>> :
         x \in {0, 1}, y \in {0, -1}, z \in {0, 1, 10, -10}, sz \in {<<2, 2, 2>>, <<2, 4, 6>>}}
    \cup {<<x, 0, z, sz[1], sz[2], sz[3], a[1], a[2], a[3]>> :
         x \in {0, 1}, z \in {0, 10}, sz \in {<<2, 2, 2>>, <<2, 4, 6>>},
         a \in [1..3 -> {0, 1, 2, 3}]}

InitProject ==
    /\ pc = "project"
    /\ point \in Boxes
    /\ cam_params \in Cameras
    /\ img_corners = <<>>
    /\ image = NoImage
    /\ bbox_data = NoneVal
    /\ fig = NoFigure
    /\ ExtractIdle
    /\ CameraIdle

Convert3dbbox ==
    /\ pc = "project"
    /\ img_corners' = convert_3dbbox(point, cam_params)
    /\ pc' = "projected"
    /\ UNCHANGED <<text, sent, json_str, bbox_results, raised, image, cam_params,
                   bbox_data, point, fig>>
    /\ UNCHANGED <<cam_infos, probe, fov>>

NextProject == Convert3dbbox

SpecProject == InitProject /\ [][NextProject]_vars

(***************************************************************************)
(* The camera of the 3D branch: CameraUtils.load_camera_params,            *)
(* CameraUtils.generate_camera_params and the two queries of app.py        *)
(*                                                                         *)
(* A camera is a Python dict.  Its numbers are kept in hundredths of a     *)
(* pixel, the precision round(x, 2) leaves.  The image name is the file    *)
(* name save_uploaded_file made, never empty.                              *)
(***************************************************************************)
KeyFx == <<"fx">>
KeyFy == <<"fy">>
KeyCx == <<"cx">>
KeyCy == <<"cy">>

\* the number n of pixels
Px(n) == IntVal(100 * n)

Camera(fx, fy, cx, cy) ==
    DictVal(<< <<KeyFx, fx>>, <<KeyFy, fy>>, <<KeyCx, cx>>, <<KeyCy, cy>> >>)

\* the value generate_camera_params returns from its except branch
DefaultCamera == Camera(Px(1000), Px(1000), Px(640), Px(360))

\* load_camera_params: None when the file is absent, when reading or decoding
\* it raises, and when the document is not an object (get raises); otherwise
\* cam_infos.get(image_name, None)
load_camera_params(source) ==
    IF source.kind = "object" THEN source.entry ELSE NoneVal

\* n / d rounded to the nearest integer, n >= 0
RoundDiv(n, d) == (2 * n + d) \div (2 * d)

\* 1 / (2 * tan(fov / 2)) in units of 10^-7
HalfCot(f) ==
    IF f = 30 THEN 18660254
    ELSE IF f = 60 THEN 8660254
    ELSE IF f = 90 THEN 5000000
    ELSE 2886751

\* round(avg_dimension / (2 * np.tan(np.deg2rad(fov) / 2)), 2) in hundredths;
\* the product is formed in two parts to stay within 32 bits
focal_length(w, h, f) ==
    LET hi == HalfCot(f) \div 10000
        lo == HalfCot(f) % 10000
        a == (w + h) * hi
    IN (a \div 20) + RoundDiv((a % 20) * 10000 + (w + h) * lo, 200000)

\* generate_camera_params(image_path, fov=fov): fx, fy, cx, cy are not given
generate_camera_params(img, f) ==
    IF ~img.loadable THEN DefaultCamera
    ELSE Camera(IntVal(focal_length(img.w, img.h, f)), IntVal(focal_length(img.w, img.h, f)),
                IntVal(50 * img.w), IntVal(50 * img.h))

\* entries the lookup can hold for the image
CameraEntries ==
    { Camera(Px(1000), Px(1000), Px(500), Px(500)),
      Camera(Px(0), Px(1000), Px(500), Px(500)),
      DictVal(<< <<KeyFx, Px(1000)>>, <<KeyFy, Px(1000)>> >>),
      DictVal(<<>>),
      NoneVal }

\* states of the lookup source: no file, a file that cannot be read or
\* decoded, a document that is an array, and an object with or without an
\* entry for the image (get gives None for a missing entry)
CameraSources ==
    { AbsentSource,
      [kind |-> "unreadable", entry |-> NoneVal],
      [kind |-> "array", entry |-> NoneVal] }
    \cup {[kind |-> "object", entry |-> e] : e \in CameraEntries}

FovChoices == {30, 60, 90, 120}

InitCamera ==
    /\ pc = "camera"
    /\ image \in ImageFiles
    /\ cam_infos \in CameraSources
    /\ fov \in FovChoices
    /\ probe = NoneVal
    /\ cam_params = NoCamera
    /\ bbox_data = NoneVal
    /\ point = <<>>
    /\ img_corners = <<>>
    /\ fig = NoFigure
    /\ ExtractIdle

\* the query in the condition of the if statement
ProbeCamera ==
    /\ pc = "camera"
    /\ probe' = load_camera_params(cam_infos)
    /\ pc' = "probed"
    /\ UNCHANGED <<text, sent, json_str, bbox_results, raised, image, cam_params,
                   bbox_data, point, img_corners, fig, cam_infos, fov>>

\* the lookup file is rewritten or removed by another process between the
\* two queries
SourceChanges ==
    /\ pc = "probed"
    /\ cam_infos' \in CameraSources \ {cam_infos}
    /\ UNCHANGED <<pc, text, sent, json_str, bbox_results, raised, image, cam_params,
                   bbox_data, point, img_corners, fig, probe, fov>>

\* the branch the condition selects: the second query, or the synthesis
ResolveCamera ==
    /\ pc = "probed"
    /\ cam_params' = IF Truthy(probe) THEN load_camera_params(cam_infos)
                     ELSE generate_camera_params(image, fov)
    /\ pc' = "resolved"
    /\ UNCHANGED <<text, sent, json_str, bbox_results, raised, image, bbox_data,
                   point, img_corners, fig, cam_infos, probe, fov>>

NextCamera == ProbeCamera \/ SourceChanges \/ ResolveCamera

SpecCamera == InitCamera /\ [][NextCamera]_vars

(***************************************************************************)
(* Properties of the extractor                                             *)
(***************************************************************************)
Extracted == pc # "response"

\* the stripped line opens a json block and carries payload after the tag
OpensJsonInline(line) ==
    /\ Len(Strip(line)) > 2
    /\ Strip(line)[1] = FENCE
    /\ Strip(line)[2] = JSON
    /\ Strip(line)[3] \in {SP, "[", "{"}

\* line i is the first json fence line of the text, a fence marker follows it
\* and no earlier line opens a json block with payload on the fence line
FirstJsonFence(t, i) ==
    LET lines == SplitLines(t)
    IN /\ i \in 1..Len(lines)
       /\ IsJsonFenceLine(lines[i])
       /\ \A j \in 1..(i - 1) : ~IsJsonFenceLine(lines[j]) /\ ~OpensJsonInline(lines[j])
       /\ Contains(JoinLines(LinesAfter(lines, i)), FENCE)

\* what stands between the json fence line i and the next fence marker
Interior(t, i) == SplitFirst(JoinLines(LinesAfter(SplitLines(t), i)), FENCE)

\* C1: for a text that holds a block opened by a json fence line and closed by
\* a later fence marker, the extracted string is the trimmed interior of that
\* block, whatever lines and fences stand before or after the block.
C1_FencedInterior ==
    Extracted =>
        \A i \in 1..Len(SplitLines(text)) :
            FirstJsonFence(text, i) => json_str = Strip(Interior(text, i))

Brackets == {"[", "]", "{", "}"}

Closer(open) == IF open = "[" THEN "]" ELSE "}"

\* the position where the bracket opened at the bottom of stack is closed,
\* reading t from position i on; 0 when the brackets do not match
RECURSIVE MatchEnd(_, _, _)
MatchEnd(t, i, stack) ==
    IF i > Len(t) THEN 0
    ELSE IF t[i] \in {"[", "{"} THEN MatchEnd(t, i + 1, Append(stack, t[i]))
    ELSE IF t[i] \in {"]", "}"}
         THEN IF t[i] # Closer(stack[Len(stack)]) THEN 0
              ELSE IF Len(stack) = 1 THEN i
              ELSE MatchEnd(t, i + 1, SubSeq(stack, 1, Len(stack) - 1))
    ELSE MatchEnd(t, i + 1, stack)

\* t[a..b] is the one balanced array or object of t: prose without brackets
\* before and after, no fence marker and no quoted bracket anywhere
TopLevelJson(t, a, b) ==
    /\ ~Contains(t, FENCE)
    /\ a \in 1..Len(t) /\ b \in 1..Len(t)
    /\ t[a] \in {"[", "{"}
    /\ \A j \in 1..(a - 1) : t[j] \notin Brackets
    /\ b = MatchEnd(t, a + 1, <<t[a]>>)
    /\ \A j \in (b + 1)..Len(t) : t[j] \notin Brackets

\* C2: for a fence-free text that holds one balanced top-level array or object,
\* alone or inside prose, the extracted string is exactly that array or object;
\* an object that contains an array is returned whole.
C2_BalancedUnchanged ==
    Extracted =>
        \A a \in 1..Len(text), b \in 1..Len(text) :
            TopLevelJson(text, a, b) => json_str = SubSeq(text, a, b)

\* C3: a list of detection objects that is encoded as JSON and wrapped between
\* a json fence line and a closing fence line is parsed back to the same
\* records in the same order, labels and geometries equal.
C3_RoundTrip ==
    (Parsed /\ sent # NoneVal) => raised = "none" /\ bbox_results = sent.v

\* C4: parsing never raises; it returns the empty sequence when nothing was
\* extracted, when the extracted string does not decode or when it decodes to
\* neither an array nor an object, the one decoded object as a one-element
\* sequence, and a decoded array as it is.
C4_NeverRaises ==
    Parsed =>
        /\ raised = "none"
        /\ LET d == json_loads(json_str)
           IN IF json_str = <<>> \/ d.exc # "none" THEN bbox_results = <<>>
              ELSE IF IsList(d.val) THEN bbox_results = d.val.v
              ELSE IF IsDict(d.val) THEN bbox_results = <<d.val>>
              ELSE bbox_results = <<>>

\* no extraction rule applies to t: no line opens a json fence, the trimmed
\* text is not wrapped in brackets and holds no [ .. ] and no { .. } pair
NoRuleMatches(t) ==
    /\ \A i \in 1..Len(SplitLines(t)) :
           ~IsJsonFenceLine(SplitLines(t)[i]) /\ ~IsInlineFenceLine(SplitLines(t)[i])
    /\ ~(StartsWith(Strip(t), "[") /\ EndsWith(Strip(t), "]"))
    /\ ~(StartsWith(Strip(t), "{") /\ EndsWith(Strip(t), "}"))
    /\ ~(\E a, b \in 1..Len(t) : a < b /\ t[a] = "[" /\ t[b] = "]")
    /\ ~(\E a, b \in 1..Len(t) : a < b /\ t[a] = "{" /\ t[b] = "}")

\* C5 as stated: when no extraction rule applies, the extracted string is empty.
C5_EmptyWhenNothingMatches ==
    (Extracted /\ NoRuleMatches(text)) => json_str = <<>>

\* C5 as amended: when no extraction rule applies, the extracted string is the
\* text with its leading and trailing whitespace removed; it is empty only for
\* a text that is empty or all whitespace.
C5_TrimmedWhenNothingMatches ==
    (Extracted /\ NoRuleMatches(text)) => json_str = Strip(text)

\* prose with blanks around it went through the extractor
C5_Witness ==
    /\ Extracted
    /\ NoRuleMatches(text)
    /\ Strip(text) # <<>>
    /\ Strip(text) # text
    /\ json_str = Strip(text)

(***************************************************************************)
(* Properties of the 2D renderer                                           *)
(***************************************************************************)
Drawn2D == pc = "drawn_2d"

\* the value a record carries as its geometry
Geometry2D(rec) ==
    IF IsDict(rec) THEN (IF bbox_key(rec) # <<>> THEN GetKey(rec, bbox_key(rec)) ELSE NoneVal)
    ELSE rec

FourNumbers(g) == IsList(g) /\ Len(g.v) = 4 /\ \A j \in 1..4 : IsInt(g.v[j])

\* the record names no score, or a number
ScoreIsNumber(rec) == IsDict(rec) /\ HasKey(rec, KeyScore) => IsInt(GetKey(rec, KeyScore))

\* the places of the records whose geometry is exactly four numbers
RECURSIVE WellFormedPlaces2D(_, _)
WellFormedPlaces2D(recs, i) ==
    IF i > Len(recs) THEN <<>>
    ELSE (IF FourNumbers(Geometry2D(recs[i])) THEN <<i>> ELSE <<>>)
         \o WellFormedPlaces2D(recs, i + 1)

\* C8: for a loadable image and a list of records, one rectangle is drawn for
\* every record whose geometry is exactly four numbers, in the order of the
\* list, and none for a record with malformed geometry; a malformed record
\* does not keep the others from being drawn.
C8_MalformedSkipped ==
    (Drawn2D /\ image.loadable /\ IsList(bbox_data)
        /\ \A i \in 1..Len(bbox_data.v) : ScoreIsNumber(bbox_data.v[i]))
    => /\ fig.kind = "figure"
       /\ [k \in 1..Len(fig.shapes) |-> fig.shapes[k].src] = WellFormedPlaces2D(bbox_data.v, 1)

MinOf(a, b) == IF a <= b THEN a ELSE b

MaxOf(a, b) == IF a <= b THEN b ELSE a

\* the rectangle r spans x1..x2 and y1..y2
Spans(r, x1, y1, x2, y2) ==
    r.x = x1 /\ r.y = y1 /\ r.x + r.width = x2 /\ r.y + r.height = y2

Drawn3D == pc = "drawn_3d"

\* the record carries nine numbers as its geometry
WellFormed3D(rec) ==
    LET g == record_geometry(rec)
    IN IsList(g) /\ Len(g.v) = 9 /\ \A j \in 1..9 : IsInt(g.v[j])

\* corner c of the record has positive depth
Survives(rec, c) == world_corner(radian_box(rec), c)[3] > 0

AllSurvive(rec) == \A c \in 0..7 : Survives(rec, c)

\* edge e of box i is among the lines of the figure
EdgeDrawn(i, e) == \E k \in 1..Len(fig.shapes) : fig.shapes[k].box = i /\ fig.shapes[k].edge = e

\* the record is a geometry of fewer than nine numbers, bare or under the
\* bbox_3d key, or a dict without the bbox_3d key
BadArityOrNoKey(rec) ==
    \/ IsDict(rec) /\ ~HasKey(rec, KeyBbox3d)
    \/ LET g == record_geometry(rec)
       IN IsList(g) /\ Len(g.v) < 9 /\ \A j \in 1..Len(g.v) : IsInt(g.v[j])

\* C6: for a loadable image, a complete camera and a list of records, the
\* result is a figure, never null: records with fewer than nine numbers or
\* without the bbox_3d key are left out and every well-formed record whose
\* corners all project has its twelve edges drawn.
C6_BadRecordsOmitted ==
    (Drawn3D /\ image.loadable /\ IsList(bbox_data)
        /\ \A i \in 1..Len(bbox_data.v) :
               WellFormed3D(bbox_data.v[i]) \/ BadArityOrNoKey(bbox_data.v[i]))
    => /\ fig.kind = "figure"
       /\ \A i \in 1..Len(bbox_data.v) :
              IF WellFormed3D(bbox_data.v[i])
              THEN AllSurvive(bbox_data.v[i]) => \A e \in 1..Len(edges) : EdgeDrawn(i, edges[e])
              ELSE \A e \in 1..Len(edges) : ~EdgeDrawn(i, edges[e])

\* C7 as stated: of a box with fewer than eight projected corners, exactly the
\* edges whose two end corners survived are drawn.
C7_PartialBoxDrawn ==
    (Drawn3D /\ fig.kind = "figure")
    => \A i \in 1..Len(bbox_data.v) :
           ~AllSurvive(bbox_data.v[i])
           => \A e \in 1..Len(edges) :
                  EdgeDrawn(i, edges[e])
                  <=> (Survives(bbox_data.v[i], edges[e][1]) /\ Survives(bbox_data.v[i], edges[e][2]))

\* C7 as amended: a box with fewer than eight projected corners is left out
\* whole, none of its edges is drawn even when both end corners survived; a
\* box whose eight corners all project has all twelve edges drawn, each
\* between the pixels of its two end corners.
C7_AllOrNothing ==
    (Drawn3D /\ fig.kind = "figure")
    => \A i \in 1..Len(bbox_data.v) :
           IF AllSurvive(bbox_data.v[i])
           THEN \A e \in 1..Len(edges) :
                    \E k \in 1..Len(fig.shapes) :
                        /\ fig.shapes[k].box = i
                        /\ fig.shapes[k].edge = edges[e]
                        /\ fig.shapes[k].pt1 =
                               int_point(pixel(world_corner(radian_box(bbox_data.v[i]),
                                                            edges[e][1]), cam_params))
                        /\ fig.shapes[k].pt2 =
                               int_point(pixel(world_corner(radian_box(bbox_data.v[i]),
                                                            edges[e][2]), cam_params))
           ELSE \A k \in 1..Len(fig.shapes) : fig.shapes[k].box # i

\* a figure that holds a drawn box and left out a box with some, not all,
\* corners in front of the camera, among them both ends of an edge
C7_Witness ==
    /\ Drawn3D
    /\ fig.kind = "figure"
    /\ Len(fig.shapes) > 0
    /\ \E i \in 1..Len(bbox_data.v) :
           /\ ~AllSurvive(bbox_data.v[i])
           /\ Survives(bbox_data.v[i], 0) /\ Survives(bbox_data.v[i], 2)
           /\ ~EdgeDrawn(i, <<0, 2>>)

Projected == pc = "projected"

\* the box and the camera of the boundary case
UnitBoxAtOrigin == <<0, 0, 0, 2, 2, 2, 0, 0, 0>>

CameraAtOrigin == [fx |-> 1000, fy |-> 1000, cx |-> 0, cy |-> 0]

\* C10 as stated: the box (0,0,0, 2,2,2, 0,0,0) under fx = fy = 1000,
\* cx = cy = 0 projects to no point at all.
C10_NoValidPoints ==
    (Projected /\ point = UnitBoxAtOrigin /\ cam_params = CameraAtOrigin)
    => Len(img_corners) = 0

\* the corners of the current box that have positive depth
FrontCorners == {c \in 0..7 : world_corner(point, c)[3] > 0}

\* C10 as amended: the box (0,0,0, 2,2,2, 0,0,0) under fx = fy = 1000,
\* cx = cy = 0 projects to four points: its corners have depth +1 or -1, the
\* four at depth +1 (corners 0, 2, 4, 6) land on (1000,1000), (1000,-1000),
\* (-1000,1000), (-1000,-1000) and the four at depth -1 are dropped.  For
\* every box a point is returned for exactly the corners of positive depth:
\* a corner at depth 0 is not projected.
C10_FrontCornersOnly ==
    Projected
    => /\ Len(img_corners) = Cardinality(FrontCorners)
       /\ (point = UnitBoxAtOrigin /\ cam_params = CameraAtOrigin)
          => /\ FrontCorners = {0, 2, 4, 6}
             /\ [k \in 1..Len(img_corners) |-> int_point(img_corners[k])]
                = << <<1000, 1000>>, <<1000, -1000>>, <<-1000, 1000>>, <<-1000, -1000>> >>
             /\ \A k \in 1..Len(img_corners) : img_corners[k].d = 2

\* the boundary box was projected
C10_Witness ==
    /\ Projected
    /\ point = UnitBoxAtOrigin
    /\ cam_params = CameraAtOrigin
    /\ Len(img_corners) = 4

\* the box and the camera of the worked example
UnitBoxAtTen == <<0, 0, 10, 2, 2, 2, 0, 0, 0>>

CameraAtCentre == [fx |-> 1000, fy |-> 1000, cx |-> 500, cy |-> 500]

\* the point p lies within tol pixels of (x, y) in both coordinates
Near(p, x, y, tol) ==
    /\ p.xn - x * p.d <= tol * p.d /\ x * p.d - p.xn <= tol * p.d
    /\ p.yn - y * p.d <= tol * p.d /\ y * p.d - p.yn <= tol * p.d

\* C11 as stated: the box (0,0,10, 2,2,2, 0,0,0) under fx = fy = 1000,
\* cx = cy = 500 projects to 8 points and the point of corner 0, the local
\* corner (+1,+1,+1), lies within one pixel of (600,600).
C11_CornerAt600 ==
    (Projected /\ point = UnitBoxAtTen /\ cam_params = CameraAtCentre)
    => /\ Len(img_corners) = 8
       /\ Near(img_corners[1], 600, 600, 1)

\* C11 as amended: the box (0,0,10, 2,2,2, 0,0,0) under fx = fy = 1000,
\* cx = cy = 500 projects to 8 points; corner 0, the local corner (+1,+1,+1),
\* has depth Z = 11 and lands at x_px = y_px = 1000 * (1/11) + 500 = 6500/11,
\* about 590.9, which truncates to pixel (590,590) and is more than nine
\* pixels away from (600,600); no corner of this box lies within one pixel of
\* (600,600): the corners at depth 9 land at 500 +- 111.1 and those at depth
\* 11 at 500 +- 90.9.
C11_CornerAt590 ==
    (Projected /\ point = UnitBoxAtTen /\ cam_params = CameraAtCentre)
    => /\ Len(img_corners) = 8
       /\ img_corners[1].d = 22
       /\ 11 * img_corners[1].xn = 6500 * img_corners[1].d
       /\ 11 * img_corners[1].yn = 6500 * img_corners[1].d
       /\ int_point(img_corners[1]) = <<590, 590>>
       /\ \A k \in 1..8 : ~Near(img_corners[k], 600, 600, 1)

\* the worked example was projected and its corner 0 is in the result
C11_Witness ==
    /\ Projected
    /\ point = UnitBoxAtTen
    /\ cam_params = CameraAtCentre
    /\ Len(img_corners) = 8
    /\ Near(img_corners[1], 591, 591, 1)

\* the 3 x 3 matrix M applied to the vector v
MatVec(M, v) ==
    [r \in 1..3 |-> M[r][1] * v[1] + M[r][2] * v[2] + M[r][3] * v[3]]

\* the rotation matrices about the vertical, the lateral and the depth axis
RotY(q) == << <<cos(q), 0, sin(q)>>, <<0, 1, 0>>, <<0 - sin(q), 0, cos(q)>> >>

RotX(q) == << <<1, 0, 0>>, <<0, cos(q), 0 - sin(q)>>, <<0, sin(q), cos(q)>> >>

RotZ(q) == << <<cos(q), 0 - sin(q), 0>>, <<sin(q), cos(q), 0>>, <<0, 0, 1>> >>

\* bit b of the corner index i
Bit(i, b) == (i \div (2 ^ b)) % 2

\* the local corner that index i names: bits 2, 1, 0 select the signs of the
\* x, y, z half extents, a set bit the negative one (lengths doubled)
CornerOfIndex(p, i) ==
    << IF Bit(i, 2) = 1 THEN 0 - p[4] ELSE p[4],
       IF Bit(i, 1) = 1 THEN 0 - p[5] ELSE p[5],
       IF Bit(i, 0) = 1 THEN 0 - p[6] ELSE p[6] >>

\* yaw about Y, then pitch about X, then roll about Z, then the translation
ReferenceCorner(p, i) ==
    LET r == MatVec(RotZ(p[9]), MatVec(RotX(p[7]), MatVec(RotY(p[8]), CornerOfIndex(p, i))))
    IN <<r[1] + 2 * p[1], r[2] + 2 * p[2], r[3] + 2 * p[3]>>

\* the pixel of the reference corner i under the current camera
ReferencePoint(i) == pixel(ReferenceCorner(point, i), cam_params)

\* C13 as stated: for every box with angles that are multiples of 90 degrees,
\* the point at output index i is the projection of the reference corner i:
\* the local corner chosen by bits 2, 1, 0 of i, rotated by yaw about Y, then
\* pitch about X, then roll about Z, and translated by the centre.
C13_IndexedReferenceCorners ==
    Projected
    => \A k \in 1..Len(img_corners) : img_corners[k] = ReferencePoint(k - 1)

\* the indices of the corners in front of the camera, in increasing order
RECURSIVE FrontFrom(_)
FrontFrom(c) ==
    IF c > 7 THEN <<>>
    ELSE (IF ReferenceCorner(point, c)[3] > 0 THEN <<c>> ELSE <<>>) \o FrontFrom(c + 1)

\* C13 as amended: for every box with angles that are multiples of 90
\* degrees, the returned points are the projections of the reference corners
\* (local corner chosen by bits 2, 1, 0 of its index, yaw about Y, then pitch
\* about X, then roll about Z, then the translation) that have positive
\* depth, in increasing corner index; output index i is corner i only when
\* all 8 corners have positive depth, otherwise the k-th point is the k-th
\* corner of positive depth.
C13_FrontReferenceCorners ==
    Projected
    => /\ Len(img_corners) = Len(FrontFrom(0))
       /\ \A k \in 1..Len(img_corners) :
              img_corners[k] = ReferencePoint(FrontFrom(0)[k])
       /\ Len(img_corners) = 8
          => \A i \in 0..7 : img_corners[i + 1] = ReferencePoint(i)

\* a box of three different extents, turned about two axes, was projected
\* with all its corners
C13_Witness ==
    /\ Projected
    /\ point[7] = 1 /\ point[8] = 1 /\ point[9] = 0
    /\ <<point[4], point[5], point[6]>> = <<2, 4, 6>>
    /\ Len(img_corners) = 8

\* the nine numbers of a record read in the order the prompt asks for,
\* [xc, yc, zc, sx, sy, sz, roll, pitch, yaw], arranged as the projector
\* takes them: pitch, yaw, roll in places 7, 8, 9, the angles in radians
ExternalBox(rec) ==
    LET b == py_list(record_geometry(rec))
    IN << b[1].v, b[2].v, b[3].v, b[4].v, b[5].v, b[6].v,
          deg2rad(b[8].v), deg2rad(b[9].v), deg2rad(b[7].v) >>

\* the pixel at which corner c of the record is drawn when its angles are
\* applied by name
ExternalPixel(rec, c) == int_point(pixel(ReferenceCorner(ExternalBox(rec), c), cam_params))

\* C14: every line drawn for a record [xc,yc,zc,sx,sy,sz,roll,pitch,yaw] joins
\* the corners of the box turned by the value in the roll place as roll, the
\* value in the pitch place as pitch and the value in the yaw place as yaw.
C14_AnglesAppliedByName ==
    (Drawn3D /\ fig.kind = "figure")
    => \A k \in 1..Len(fig.shapes) :
           LET rec == bbox_data.v[fig.shapes[k].box]
           IN /\ fig.shapes[k].pt1 = ExternalPixel(rec, fig.shapes[k].edge[1])
              /\ fig.shapes[k].pt2 = ExternalPixel(rec, fig.shapes[k].edge[2])

\* the labels of the figure that belong to box i
LabelsOf(i) == {k \in 1..Len(fig.labels) : fig.labels[k].box = i}

\* box i of the list is drawn: its record holds nine numbers and its eight
\* corners all project
BoxDrawn(i) == WellFormed3D(bbox_data.v[i]) /\ AllSurvive(bbox_data.v[i])

\* C16: in the figure of the 3D renderer every drawn box has exactly one
\* label, placed at its corner 0 moved up by 10 pixels, a box that is not
\* drawn has none, and there are as many labels as drawn boxes.
C16_OneLabelPerBox ==
    (Drawn3D /\ fig.kind = "figure")
    => /\ \A i \in 1..Len(bbox_data.v) :
              IF BoxDrawn(i)
              THEN /\ Cardinality(LabelsOf(i)) = 1
                   /\ \A k \in LabelsOf(i) :
                          LET c0 == pixel(world_corner(radian_box(bbox_data.v[i]), 0),
                                          cam_params)
                          IN /\ fig.labels[k].xn * c0.d = c0.xn * fig.labels[k].d
                             /\ fig.labels[k].yn * c0.d
                                = (c0.yn - 10 * c0.d) * fig.labels[k].d
              ELSE LabelsOf(i) = {}
       /\ Len(fig.labels) = Cardinality({i \in 1..Len(bbox_data.v) : BoxDrawn(i)})

\* line i opens a json block with payload on the fence line and no earlier
\* line starts with a fence marker
FirstInlineFence(t, i) ==
    LET lines == SplitLines(t)
    IN /\ i \in 1..Len(lines)
       /\ OpensJsonInline(lines[i])
       /\ \A j \in 1..(i - 1) : ~StartsWith(Strip(lines[j]), FENCE)

\* the payload of the fence line i, what follows the marker and the tag, and
\* the lines after it, up to the next fence marker
InlinePayload(t, i) ==
    LET lines == SplitLines(t)
        line == Strip(lines[i])
    IN SplitFirst(SubSeq(line, 3, Len(line)) \o <<LF>> \o JoinLines(LinesAfter(lines, i)),
                  FENCE)

\* C15: when the opening fence marker and the json tag stand on one line
\* together with payload, the extracted string is the trimmed payload of that
\* line joined with the following lines up to the next fence marker; only the
\* tag is removed, a json inside the payload stays.
C15_InlinePayloadPreserved ==
    Extracted =>
        \A i \in 1..Len(SplitLines(text)) :
            FirstInlineFence(text, i) => json_str = Strip(InlinePayload(text, i))

Resolved == pc = "resolved"

\* the value is a dict with a number under each of fx, fy, cx, cy
CompleteCamera(c) ==
    /\ IsDict(c)
    /\ \A key \in {KeyFx, KeyFy, KeyCx, KeyCy} : HasKey(c, key) /\ IsInt(GetKey(c, key))

\* C12: the camera handed to the 3D renderer is never null and is complete
\* with fx > 0 and fy > 0: it is the entry of the lookup when the lookup has
\* one, otherwise the synthesized camera, which is the default fx = fy =
\* 1000, cx = 640, cy = 360 when the synthesis fails; also when the lookup
\* source is missing, unreadable or changes between the two queries.  An
\* entry that is empty counts as no entry.
C12_CameraComplete ==
    Resolved
    => /\ cam_params # NoneVal
       /\ CompleteCamera(cam_params)
       /\ GetKey(cam_params, KeyFx).v > 0
       /\ GetKey(cam_params, KeyFy).v > 0
       /\ IF Truthy(probe)
          THEN cam_params \in {probe, load_camera_params(cam_infos)}
          ELSE cam_params = IF image.loadable THEN generate_camera_params(image, fov)
                            ELSE DefaultCamera

====
